---- MODULE Spec2Model ----
(***************************************************************************)
(* Neo4jXRay: one run of main() (neo4j_xray.py) over a Neo4j database that *)
(* is seen only through Neo4jConnector (db_connector.py).  The extractor   *)
(* (data_extractor.py) turns the query results into the schema model, the  *)
(* diagram generator (er_diagram_generator.py) and the report generator    *)
(* (report_generator.py) render it.                                        *)
(*                                                                         *)
(* Python values are modelled as follows.  A list is a sequence.  The      *)
(* Optional[Dict] of execute_single_result is a sequence of at most one    *)
(* row.  A property value is a record [type, repr] holding the name of its *)
(* Python type and its str().  A property bag (a dict, which keeps the     *)
(* order of its keys) is a sequence of [k, v] records with distinct keys.  *)
(* A query is the pair <<kind, argument>>.  A text that is written out is  *)
(* a sequence of pieces: a piece is one character, or a run of characters  *)
(* that the reader of the text takes as a whole (Text below).              *)
(***************************************************************************)
EXTENDS Integers, Sequences, FiniteSets, TLC

VARIABLES
    pc,        \* the statement of main() that runs next
    db,        \* the database behind the connector (fixed during a run)
    raised,    \* the queries on which the executor has raised so far
    partial,   \* get_all_data's local dict `data`, under construction
    data,      \* main's `data`: <<>> until get_all_data has returned
    driver,    \* "none" (no connector yet), "open" or "closed"
    dotFile,   \* <<>> or <<the statements written to the DOT file>>
    pngFile,   \* TRUE when the rasterizer has written the PNG file
    mdFile,    \* <<>> or <<the report written>>
    io,        \* what the steps outside the executor did, "" before they run
    exitCode,  \* <<>> while main runs, then <<0>> or <<1>>
    text,      \* the argument of escape_markdown when it is applied by itself
    result     \* and what it returned

vars == <<pc, db, raised, partial, data, driver, dotFile, pngFile, mdFile, io, exitCode,
          text, result>>

(***************************************************************************)
(* Bounds of the model.                                                    *)
(***************************************************************************)
MaxEntities == 1     \* nodes stored per label
MaxTextLen == 3      \* characters of a text escaped by itself
MaxSamples == 2      \* nodes stored under the label whose property bags vary
MaxDotNodes == 1     \* labels of a model drawn by the diagram generator alone

SAMPLE_LIMIT == 10

LabelNames == {"A", "B"}
RelNames == {"R", "S"}

None == [type |-> "NoneType", repr |-> <<"None">>]
Int7 == [type |-> "int", repr |-> <<"7">>]
StrX == [type |-> "str", repr |-> <<"x">>]

(***************************************************************************)
(* Helpers on sequences.                                                   *)
(***************************************************************************)
Range(s) == {s[i] : i \in 1..Len(s)}

NoDup(s) == \A i, j \in 1..Len(s) : i # j => s[i] # s[j]

SeqsUpTo(S, n) == UNION {[1..k -> S] : k \in 0..n}

Min(a, b) == IF a < b THEN a ELSE b

\* The order of ORDER BY on the names of the model.
Rank(name) ==
    CASE name = "A" -> 1 [] name = "B" -> 2
      [] name = "R" -> 1 [] name = "S" -> 2
      [] OTHER -> 0

Sorted(s) == \A i, j \in 1..Len(s) : i < j => Rank(s[i]) < Rank(s[j])

(***************************************************************************)
(* The databases.                                                          *)
(***************************************************************************)
\* The property bags stored on nodes and on relationships.
Bags == {<<>>,
         <<[k |-> "id", v |-> Int7]>>,
         <<[k |-> "name", v |-> None]>>,
         <<[k |-> "name", v |-> StrX], [k |-> "id", v |-> StrX]>>}

RelBags == {<<>>, <<[k |-> "since", v |-> Int7], [k |-> "note", v |-> None]>>}

\* labels(n) of a node: its labels, each once, in the store's order.  A node
\* may carry no label.
LabelLists == {s \in SeqsUpTo(LabelNames, Cardinality(LabelNames)) : NoDup(s)}

\* The relationships of one type as the three per-type queries see them: the
\* relationship that LIMIT 1 returns, and how many there are.
Edges == [start_labels : LabelLists, end_labels : LabelLists, props : RelBags,
          count : {1, 2}]

\* CALL db.labels() / db.relationshipTypes() ... ORDER BY: sorted, each once.
SortedLists(S) == {s \in SeqsUpTo(S, Cardinality(S)) : Sorted(s)}

\* The rows of the pass-through facets (SHOW INDEXES, SHOW CONSTRAINTS,
\* dbms.procedures()).
IndexRows == {<<>>, <<[name |-> "idx_a", labelsOrTypes |-> <<"A">>]>>}
ConstraintRows == {<<>>, <<[name |-> "uniq_a", labelsOrTypes |-> <<"A">>]>>}
ProcedureRows == {<<>>, <<[name |-> "apoc.help", signature |-> "sig"]>>}

VersionRows == {<<>>, <<[version |-> "5.1"]>>}
NameRows == {<<>>, <<[name |-> "mydb"]>>}
SizeRows == {<<>>, <<[database |-> "mydb", totalSize |-> "1024"]>>}

\* A database is well formed when only listed labels have nodes and only listed
\* relationship types have relationships.
Database(v, n, s, ls, es, ts, gs, ix, cs, ps) ==
    [version |-> v, name |-> n, size |-> s,
     labels |-> ls, entities |-> es,
     relTypes |-> ts, edges |-> gs,
     indexes |-> ix, constraints |-> cs, procedures |-> ps]

EntityMaps(ls) ==
    {es \in [LabelNames -> SeqsUpTo(Bags, MaxEntities)] :
        \A l \in LabelNames \ Range(ls) : es[l] = <<>>}

EdgeMaps(ts) ==
    {gs \in [RelNames -> SeqsUpTo(Edges, 1)] :
        \A t \in RelNames \ Range(ts) : gs[t] = <<>>}

(***************************************************************************)
(* db_connector.py: the query executor.  F is the set of queries on which  *)
(* the driver raises when they are run.                                    *)
(***************************************************************************)
Q(kind, arg) == <<kind, arg>>

Take(s, n) == SubSeq(s, 1, Min(Len(s), n))

\* What the database answers to a query: the records of session.run().
Rows(d, q) ==
    CASE q[1] = "version"   -> d.version
      [] q[1] = "db_name"   -> d.name
      [] q[1] = "size"      ->
            IF d.size # <<>> /\ d.size[1].database = q[2]
            THEN <<[totalSize |-> d.size[1].totalSize]>> ELSE <<>>
      [] q[1] = "labels"    -> [i \in 1..Len(d.labels) |-> [label |-> d.labels[i]]]
      [] q[1] = "rel_types" ->
            [i \in 1..Len(d.relTypes) |-> [relationshipType |-> d.relTypes[i]]]
      [] q[1] = "count"     -> <<[count |-> Len(d.entities[q[2]])]>>
      [] q[1] = "props"     ->
            [i \in 1..Min(Len(d.entities[q[2]]), 1) |-> [props |-> d.entities[q[2]][i]]]
      [] q[1] = "sample"    ->
            [i \in 1..Min(Len(d.entities[q[2]]), SAMPLE_LIMIT) |->
                [n |-> d.entities[q[2]][i]]]
      [] q[1] = "endpoints" ->
            [i \in 1..Len(d.edges[q[2]]) |->
                [start_labels |-> d.edges[q[2]][i].start_labels,
                 end_labels |-> d.edges[q[2]][i].end_labels,
                 relationship_count |-> d.edges[q[2]][i].count]]
      [] q[1] = "rel_props" ->
            [i \in 1..Len(d.edges[q[2]]) |-> [props |-> d.edges[q[2]][i].props]]
      [] q[1] = "rel_count" ->
            <<[count |-> IF d.edges[q[2]] = <<>> THEN 0 ELSE d.edges[q[2]][1].count]>>
      [] q[1] = "indexes"     -> d.indexes
      [] q[1] = "constraints" -> d.constraints
      [] q[1] = "procedures"  -> d.procedures

\* Neo4jConnector.execute_query: every record, or the driver's exception.
execute_query(d, F, q) ==
    IF q \in F THEN [exc |-> <<q>>, rows |-> <<>>]
    ELSE [exc |-> <<>>, rows |-> Rows(d, q)]

\* Neo4jConnector.execute_single_result: result.single(), the first record or
\* None, or the driver's exception.
execute_single_result(d, F, q) ==
    IF q \in F THEN [exc |-> <<q>>, rows |-> <<>>]
    ELSE [exc |-> <<>>, rows |-> Take(Rows(d, q), 1)]

(***************************************************************************)
(* data_extractor.py.  A method's outcome is [exc, caught, val]: exc is    *)
(* <<q>> when the exception of query q leaves the method (val is then      *)
(* meaningless) and <<>> when the method returns val; caught holds the     *)
(* queries whose exception the method has handled itself.                  *)
(***************************************************************************)
Raise(q, c) == [exc |-> <<q>>, caught |-> c, val |-> <<>>]
Return(v, c) == [exc |-> <<>>, caught |-> c, val |-> v]

get_database_info(d, F) ==
    LET r1 == execute_single_result(d, F, Q("version", ""))
        version == IF r1.rows # <<>> THEN r1.rows[1].version ELSE "Unknown"
        r2 == execute_single_result(d, F, Q("db_name", ""))
        db_name == IF r2.rows # <<>> THEN r2.rows[1].name ELSE "neo4j"
        r3 == execute_single_result(d, F, Q("size", db_name))
        db_size == IF r3.rows # <<>> THEN r3.rows[1].totalSize ELSE "Unknown"
    IN  IF r1.exc # <<>> THEN Raise(r1.exc[1], {})
        ELSE IF r2.exc # <<>> THEN Raise(r2.exc[1], {})
        ELSE IF r3.exc # <<>> THEN Raise(r3.exc[1], {})
        ELSE Return([version |-> version, db_name |-> db_name, db_size |-> db_size], {})

\* A get_node_labels that handles the exception and returns no label.
get_node_labels_guarded(d, F) ==
    LET r == execute_query(d, F, Q("labels", ""))
    IN  IF r.exc # <<>> THEN Return(<<>>, {r.exc[1]})
        ELSE Return([i \in 1..Len(r.rows) |-> r.rows[i].label], {})

get_node_labels(d, F) ==
    LET r == execute_query(d, F, Q("labels", ""))
    IN  IF r.exc # <<>> THEN Raise(r.exc[1], {})
        ELSE Return([i \in 1..Len(r.rows) |-> r.rows[i].label], {})

get_relationship_types(d, F) ==
    LET r == execute_query(d, F, Q("rel_types", ""))
    IN  IF r.exc # <<>> THEN Raise(r.exc[1], {})
        ELSE Return([i \in 1..Len(r.rows) |-> r.rows[i].relationshipType], {})

\* type(prop_value).__name__ if prop_value is not None else "unknown"
InferType(v) == IF v # None THEN v.type ELSE "unknown"

\* A descriptor whose primary-key test ignores the case of the name.
PropertyDescriptorAnyCase(p) ==
    [property_name |-> p.k, data_type |-> InferType(p.v),
     is_primary_key |-> p.k \in {"id", "ID"}]

PropertyDescriptor(p) ==
    [property_name |-> p.k, data_type |-> InferType(p.v), is_primary_key |-> p.k = "id"]

get_node_properties(d, F, label) ==
    LET r == execute_query(d, F, Q("props", label))
    IN  IF r.exc # <<>> THEN Raise(r.exc[1], {})
        ELSE IF r.rows # <<>>
        THEN LET props == r.rows[1].props
             IN  Return([i \in 1..Len(props) |-> PropertyDescriptor(props[i])], {})
        ELSE Return(<<>>, {})

\* The body of get_nodes' loop for one label: the NodeType appended.
NodeEntry(d, F, label) ==
    LET c == execute_single_result(d, F, Q("count", label))
        node_count == IF c.rows # <<>> THEN c.rows[1].count ELSE 0
        p == get_node_properties(d, F, label)
    IN  IF c.exc # <<>> THEN Raise(c.exc[1], {})
        ELSE IF p.exc # <<>> THEN p
        ELSE Return([label |-> label, node_count |-> node_count, properties |-> p.val], {})

\* A get_nodes loop that leaves out the labels without nodes.
RECURSIVE NodesLoopSkipsEmpty(_, _, _, _, _)
NodesLoopSkipsEmpty(d, F, labels, i, nodes) ==
    IF i > Len(labels) THEN Return(nodes, {})
    ELSE LET e == NodeEntry(d, F, labels[i])
         IN  IF e.exc # <<>> THEN e
             ELSE NodesLoopSkipsEmpty(d, F, labels, i + 1,
                    IF e.val.node_count = 0 THEN nodes ELSE Append(nodes, e.val))

RECURSIVE NodesLoop(_, _, _, _, _)
NodesLoop(d, F, labels, i, nodes) ==
    IF i > Len(labels) THEN Return(nodes, {})
    ELSE LET e == NodeEntry(d, F, labels[i])
         IN  IF e.exc # <<>> THEN e
             ELSE NodesLoop(d, F, labels, i + 1, Append(nodes, e.val))

get_nodes(d, F) ==
    LET ls == get_node_labels(d, F)
        r == NodesLoop(d, F, ls.val, 1, <<>>)
    IN  IF ls.exc # <<>> THEN ls ELSE [r EXCEPT !.caught = @ \cup ls.caught]

\* A get_relationships loop body that keeps a type without relationships, with
\* count 0.
RelationshipEntryKeepsEmpty(d, F, rel_type) ==
    LET r == execute_single_result(d, F, Q("endpoints", rel_type))
        p == execute_single_result(d, F, Q("rel_props", rel_type))
        properties == IF p.rows # <<>> THEN p.rows[1].props ELSE <<>>
        c == execute_single_result(d, F, Q("rel_count", rel_type))
        rel_count == IF c.rows # <<>> THEN c.rows[1].count ELSE 0
    IN  IF r.exc # <<>> THEN Raise(r.exc[1], {})
        ELSE IF p.exc # <<>> THEN Raise(p.exc[1], {})
        ELSE IF c.exc # <<>> THEN Raise(c.exc[1], {})
        ELSE Return(<<[type |-> rel_type,
                       start_labels |-> IF r.rows # <<>> THEN r.rows[1].start_labels ELSE <<>>,
                       end_labels |-> IF r.rows # <<>> THEN r.rows[1].end_labels ELSE <<>>,
                       relationship_count |-> rel_count,
                       properties |-> properties]>>, {})

\* The body of get_relationships' loop for one type: <<>> when the endpoint
\* query returns no record, else <<the RelationshipType appended>>.
RelationshipEntry(d, F, rel_type) ==
    LET r == execute_single_result(d, F, Q("endpoints", rel_type))
        p == execute_single_result(d, F, Q("rel_props", rel_type))
        properties == IF p.rows # <<>> THEN p.rows[1].props ELSE <<>>
        c == execute_single_result(d, F, Q("rel_count", rel_type))
        rel_count == IF c.rows # <<>> THEN c.rows[1].count ELSE 0
    IN  IF r.exc # <<>> THEN Raise(r.exc[1], {})
        ELSE IF r.rows = <<>> THEN Return(<<>>, {})
        ELSE IF p.exc # <<>> THEN Raise(p.exc[1], {})
        ELSE IF c.exc # <<>> THEN Raise(c.exc[1], {})
        ELSE Return(<<[type |-> rel_type,
                       start_labels |-> r.rows[1].start_labels,
                       end_labels |-> r.rows[1].end_labels,
                       relationship_count |-> rel_count,
                       properties |-> properties]>>, {})

RECURSIVE RelationshipsLoop(_, _, _, _, _)
RelationshipsLoop(d, F, rel_types, i, relationships) ==
    IF i > Len(rel_types) THEN Return(relationships, {})
    ELSE LET e == RelationshipEntry(d, F, rel_types[i])
         IN  IF e.exc # <<>> THEN e
             ELSE RelationshipsLoop(d, F, rel_types, i + 1, relationships \o e.val)

get_relationships(d, F) ==
    LET ts == get_relationship_types(d, F)
        r == RelationshipsLoop(d, F, ts.val, 1, <<>>)
    IN  IF ts.exc # <<>> THEN ts ELSE [r EXCEPT !.caught = @ \cup ts.caught]

\* A get_samples loop body without the try statement.
SampleEntryUnguarded(d, F, label) ==
    LET r == execute_query(d, F, Q("sample", label))
    IN  IF r.exc # <<>> THEN Raise(r.exc[1], {})
        ELSE Return([i \in 1..Len(r.rows) |-> r.rows[i].n], {})

\* The body of get_samples' loop for one label: the list stored under the
\* label, and the query whose exception the except clause has handled.
SampleEntry(d, F, label) ==
    LET r == execute_query(d, F, Q("sample", label))
    IN  IF r.exc # <<>> THEN Return(<<>>, {r.exc[1]})
        ELSE Return([i \in 1..Len(r.rows) |-> r.rows[i].n], {})

\* A get_samples whose try statement encloses the loop: the first exception
\* ends the sampling.
RECURSIVE SamplesLoopStopsAtFault(_, _, _, _, _, _)
SamplesLoopStopsAtFault(d, F, nodes, i, samples, caught) ==
    IF i > Len(nodes) THEN Return(samples, caught)
    ELSE LET label == nodes[i].label
             r == execute_query(d, F, Q("sample", label))
             rest == [l \in DOMAIN samples \ {label} |-> samples[l]]
         IN  IF r.exc # <<>> THEN Return(samples, caught \cup {r.exc[1]})
             ELSE SamplesLoopStopsAtFault(d, F, nodes, i + 1,
                    (label :> [k \in 1..Len(r.rows) |-> r.rows[k].n]) @@ rest, caught)

\* samples is a dict: a later node with the same label overwrites the entry.
RECURSIVE SamplesLoop(_, _, _, _, _, _)
SamplesLoop(d, F, nodes, i, samples, caught) ==
    IF i > Len(nodes) THEN Return(samples, caught)
    ELSE LET label == nodes[i].label
             e == SampleEntry(d, F, label)
             rest == [l \in DOMAIN samples \ {label} |-> samples[l]]
         IN  IF e.exc # <<>> THEN Raise(e.exc[1], caught)
             ELSE SamplesLoop(d, F, nodes, i + 1, (label :> e.val) @@ rest,
                              caught \cup e.caught)

get_samples(d, F, nodes) == SamplesLoop(d, F, nodes, 1, <<>>, {})

\* get_indexes, get_constraints, get_procedures: the rows, or [] on any
\* exception.
OptionalFacet(d, F, q) ==
    LET r == execute_query(d, F, q)
    IN  IF r.exc # <<>> THEN Return(<<>>, {r.exc[1]}) ELSE Return(r.rows, {})

\* A get_indexes without the try statement.
get_indexes_unguarded(d, F) ==
    LET r == execute_query(d, F, Q("indexes", ""))
    IN  IF r.exc # <<>> THEN Raise(r.exc[1], {}) ELSE Return(r.rows, {})

get_indexes(d, F) == OptionalFacet(d, F, Q("indexes", ""))
get_constraints(d, F) == OptionalFacet(d, F, Q("constraints", ""))
get_procedures(d, F) == OptionalFacet(d, F, Q("procedures", ""))

\* The queries a method can run against database d.
InfoQueries(d) ==
    {Q("version", ""), Q("db_name", ""), Q("size", "neo4j")}
        \cup {Q("size", d.name[i].name) : i \in 1..Len(d.name)}
NodeQueries(d) ==
    {Q("labels", "")} \cup {Q(k, l) : k \in {"count", "props"}, l \in Range(d.labels)}
RelationshipQueries(d) ==
    {Q("rel_types", "")}
        \cup {Q(k, t) : k \in {"endpoints", "rel_props", "rel_count"}, t \in Range(d.relTypes)}
SampleQueries(nodes) == {Q("sample", nodes[i].label) : i \in 1..Len(nodes)}

\* The characters of the strings of the model that hold a character which
\* means something to Markdown or to DOT; any other string is one plain run.
Text(s) ==
    CASE s = ""           -> <<>>
      [] s = "first_name" -> <<"first", "_", "name">>
      [] s = "idx_a"      -> <<"idx", "_", "a">>
      [] s = "uniq_a"     -> <<"uniq", "_", "a">>
      [] s = "apoc.help"  -> <<"apoc", ".", "help">>
      [] s = "a\"b"       -> <<"a", "\"", "b">>
      [] s = "a\\"        -> <<"a", "\\">>
      [] s = "a<b"        -> <<"a", "<", "b">>
      [] s = "a>b"        -> <<"a", ">", "b">>
      [] s = "a&b"        -> <<"a", "&", "b">>
      [] s = "r\"s"       -> <<"r", "\"", "s">>
      [] OTHER            -> <<s>>

\* A Python str as a value.
Str(s) == [type |-> "str", repr |-> Text(s)]

(***************************************************************************)
(* er_diagram_generator.py.  The DOT file is the sequence of its node and  *)
(* edge statements.                                                        *)
(***************************************************************************)
\* generate_node_html: the header cell and the property rows of the table, or
\* the "No properties" row.
generate_node_html(node) ==
    [header |-> node.label,
     rows |-> IF node.properties # <<>>
              THEN [i \in 1..Len(node.properties) |->
                       [name |-> node.properties[i].property_name,
                        type |-> node.properties[i].data_type,
                        pk |-> node.properties[i].is_primary_key]]
              ELSE <<[name |-> "No properties", type |-> "", pk |-> FALSE]>>]

NodeStatement(node) ==
    [kind |-> "node", id |-> node.label, label |-> generate_node_html(node)]

\* rel_label: the type, and "name: type(value).__name__" for each property.
RelLabel(relationship) ==
    [type |-> relationship.type,
     props |-> [i \in 1..Len(relationship.properties) |->
                   [name |-> relationship.properties[i].k,
                    type |-> relationship.properties[i].v.type]]]

EdgeStatement(relationship, start_label, end_label) ==
    [kind |-> "edge", tail |-> start_label, head |-> end_label,
     label |-> RelLabel(relationship)]

\* A diagram loop that pairs a start label with the first end label only.
EndLabelsLoopFirstOnly(relationship, start_label, j, out) ==
    IF relationship.end_labels = <<>> THEN out
    ELSE Append(out, EdgeStatement(relationship, start_label,
                                   relationship.end_labels[1]))

\* for end_label in relationship['end_labels']: f.write(...)
RECURSIVE EndLabelsLoop(_, _, _, _)
EndLabelsLoop(relationship, start_label, j, out) ==
    IF j > Len(relationship.end_labels) THEN out
    ELSE EndLabelsLoop(relationship, start_label, j + 1,
            Append(out, EdgeStatement(relationship, start_label,
                                      relationship.end_labels[j])))

\* for start_label in relationship['start_labels']: ...
RECURSIVE StartLabelsLoop(_, _, _)
StartLabelsLoop(relationship, i, out) ==
    IF i > Len(relationship.start_labels) THEN out
    ELSE StartLabelsLoop(relationship, i + 1,
            EndLabelsLoop(relationship, relationship.start_labels[i], 1, out))

\* for relationship in self.relationships: ...
RECURSIVE DotRelationshipsLoop(_, _, _)
DotRelationshipsLoop(relationships, i, out) ==
    IF i > Len(relationships) THEN out
    ELSE DotRelationshipsLoop(relationships, i + 1,
            StartLabelsLoop(relationships[i], 1, out))

generate_graph_dot(nodes, relationships) ==
    DotRelationshipsLoop(relationships, 1,
        [i \in 1..Len(nodes) |-> NodeStatement(nodes[i])])

\* The text of a statement, as f.write puts it into the file.  A markup tag
\* with its attributes is one piece, and so is a run of the DOT syntax
\* between two quotation marks.
\* property_rows.append(f'<TR><TD ...>{prop_name}</TD><TD ...>{data_type}</TD>{pk_marker}</TR>')
PropertyRowText(row) ==
    IF row.type = "" THEN <<"<TR>", "<TD>", row.name, "</TD>", "</TR>">>
    ELSE <<"<TR>", "<TD>">> \o Text(row.name) \o <<"</TD>", "<TD>">> \o Text(row.type)
         \o <<"</TD>">>
         \o (IF row.pk THEN <<"<TD>", "<B>", "PK", "</B>", "</TD>">> ELSE <<"<TD>", "</TD>">>)
         \o <<"</TR>">>

RECURSIVE PropertyRowsText(_, _)
PropertyRowsText(rows, i) ==
    IF i > Len(rows) THEN <<>>
    ELSE PropertyRowText(rows[i]) \o PropertyRowsText(rows, i + 1)

\* html: the table between "<" and ">", with {label} and {property_rows_str}.
NodeHtmlText(html) ==
    <<"<", "<TABLE>", "<TR>", "<TD>", "<FONT>", "<B>">> \o Text(html.header)
    \o <<"</B>", " (Node)", "</FONT>", "</TD>", "</TR>",
         "<TR>", "<TD>", "<B>", "Property", "</B>", "</TD>",
         "<TD>", "<B>", "Type", "</B>", "</TD>",
         "<TD>", "<B>", "PK", "</B>", "</TD>", "</TR>">>
    \o PropertyRowsText(html.rows, 1)
    \o <<"</TABLE>", ">">>

\* f.write(f'  "{label}" [label={node_html}];\n')
NodeLine(statement) ==
    <<"  ", "\"">> \o Text(statement.id) \o <<"\"", " [label=">>
    \o NodeHtmlText(statement.label) \o <<"];\n">>

\* props_str: "name: type" for each property, joined by ", ".
RECURSIVE PropsText(_, _)
PropsText(props, i) ==
    IF i > Len(props) THEN <<>>
    ELSE (IF i > 1 THEN <<", ">> ELSE <<>>)
         \o Text(props[i].name) \o <<": ">> \o Text(props[i].type)
         \o PropsText(props, i + 1)

\* rel_label = f"{rel_type}", and f" ({props_str})" when there are properties.
RelLabelText(label) ==
    Text(label.type)
    \o (IF label.props # <<>> THEN <<" (">> \o PropsText(label.props, 1) \o <<")">>
        ELSE <<>>)

\* f.write(f'  "{start_label}" -> "{end_label}" [label="{rel_label}", fontname="Helvetica", ')
\* f.write('fontsize=8, color="#5D8AA8", style="solid"];\n')
EdgeLine(statement) ==
    <<"  ", "\"">> \o Text(statement.tail) \o <<"\"", " -> ", "\"">>
    \o Text(statement.head) \o <<"\"", " [label=", "\"">>
    \o RelLabelText(statement.label)
    \o <<"\"", ", fontname=", "\"", "Helvetica", "\"", ", ", "fontsize=8, color=",
         "\"", "#5D8AA8", "\"", ", style=", "\"", "solid", "\"", "];\n">>

DotLine(statement) ==
    IF statement.kind = "node" THEN NodeLine(statement) ELSE EdgeLine(statement)

\* render_png: what `dot -Tpng` does is outside the program: it writes the
\* PNG ("ok"), is not installed ("missing", FileNotFoundError), exits with a
\* nonzero status ("nonzero", CalledProcessError) or cannot be started for
\* another reason ("oserror", e.g. PermissionError).  Only the second and the
\* third are handled.
RasterizerOutcomes == {"ok", "missing", "nonzero", "oserror"}

\* A render_png that handles FileNotFoundError only.
render_png_unguarded(outcome) ==
    [exc |-> outcome \notin {"ok", "missing"}, png |-> outcome = "ok"]

render_png(outcome) ==
    [exc |-> outcome \notin {"ok", "missing", "nonzero"}, png |-> outcome = "ok"]

(***************************************************************************)
(* report_generator.py.                                                    *)
(***************************************************************************)
\* The grave accent, the one character of escape_chars that a string of this
\* notation cannot hold.
Backtick == "grave"

\* An escape list that ends with the escape marker itself.
escape_chars_and_marker ==
    <<"|", "_", "*", Backtick, "[", "]", "(", ")", "#", "+", "-", ".", "!", "\\">>

\* escape_chars, in the order the loop takes them.
escape_chars ==
    <<"|", "_", "*", Backtick, "[", "]", "(", ")", "#", "+", "-", ".", "!">>

\* str.replace(char, '\\' + char) on a text: left to right, every occurrence;
\* a text without the character is returned as it is.
RECURSIVE Replace(_, _)
Replace(s, char) ==
    IF \A i \in 1..Len(s) : s[i] # char THEN s
    ELSE (IF Head(s) = char THEN <<"\\", char>> ELSE <<Head(s)>>)
         \o Replace(Tail(s), char)

\* for char in escape_chars: result = result.replace(char, '\\' + char)
RECURSIVE EscapeLoop(_, _, _)
EscapeLoop(chars, s, i) ==
    IF i > Len(chars) THEN s
    ELSE EscapeLoop(chars, Replace(s, chars[i]), i + 1)

\* escape_markdown(text): "" for None, else the loop over str(text).
escape_markdown(value) ==
    IF value = None THEN <<>> ELSE EscapeLoop(escape_chars, value.repr, 1)

\* separator.join(strings), as a str value.
RECURSIVE JoinLoop(_, _, _, _)
JoinLoop(separator, strings, i, out) ==
    IF i > Len(strings) THEN out
    ELSE JoinLoop(separator, strings, i + 1,
                  out \o (IF i > 1 THEN <<separator>> ELSE <<>>) \o Text(strings[i]))

Join(separator, strings) ==
    [type |-> "str", repr |-> JoinLoop(separator, strings, 1, <<>>)]

\* The rows of the property table of a node: none when it has no property
\* ("No properties defined.").
NodePropertyRows(node) ==
    [i \in 1..Len(node.properties) |->
        [name |-> escape_markdown(Str(node.properties[i].property_name)),
         type |-> escape_markdown(Str(node.properties[i].data_type)),
         pk |-> IF node.properties[i].is_primary_key THEN "Yes" ELSE "No"]]

\* The property names of the model in the order of sorted(): by code point.
KeyOrder == <<"ID", "first_name", "id", "name", "note", "since">>

\* sorted(list(all_keys))
sorted(all_keys) == SelectSeq(KeyOrder, LAMBDA key : key \in all_keys)

\* sample.keys() and sample.get(key, default)
Keys(sample) == {sample[i].k : i \in 1..Len(sample)}
Get(sample, key, default) ==
    IF key \in Keys(sample)
    THEN sample[CHOOSE i \in 1..Len(sample) : sample[i].k = key].v
    ELSE default

\* A sample table whose columns are the keys of the first sample.
SampleTableOfFirstKeys(samples) ==
    IF samples = <<>> THEN [columns |-> <<>>, rows |-> <<>>]
    ELSE LET all_keys == sorted(Keys(samples[1]))
         IN  [columns |-> [j \in 1..Len(all_keys) |-> escape_markdown(Str(all_keys[j]))],
              rows |-> [i \in 1..Len(samples) |->
                          [j \in 1..Len(all_keys) |->
                              escape_markdown(Get(samples[i], all_keys[j], Str("")))]]]

\* The sample table of a label: the header row and one row for each sample;
\* neither when there is no sample ("No sample data available.").
SampleTable(samples) ==
    IF samples = <<>> THEN [columns |-> <<>>, rows |-> <<>>]
    ELSE LET all_keys == sorted(UNION {Keys(samples[i]) : i \in 1..Len(samples)})
         IN  [columns |-> [j \in 1..Len(all_keys) |-> escape_markdown(Str(all_keys[j]))],
              rows |-> [i \in 1..Len(samples) |->
                          [j \in 1..Len(all_keys) |->
                              escape_markdown(Get(samples[i], all_keys[j], Str("")))]]]

\* for node in self.data['nodes']: the section of one label.
NodeSection(model, node) ==
    [label |-> node.label,
     node_count |-> node.node_count,
     properties |-> NodePropertyRows(node),
     samples |-> SampleTable(IF node.label \in DOMAIN model.samples
                             THEN model.samples[node.label] ELSE <<>>)]

\* The rows of the property table of a relationship type.
RelPropertyRows(rel) ==
    [i \in 1..Len(rel.properties) |->
        [name |-> escape_markdown(Str(rel.properties[i].k)),
         type |-> escape_markdown(Str(InferType(rel.properties[i].v)))]]

\* for rel in self.data['relationships']: the section of one type.
RelSection(rel) ==
    [type |-> rel.type,
     relationship_count |-> rel.relationship_count,
     start_labels |-> Join(", ", rel.start_labels).repr,
     end_labels |-> Join(", ", rel.end_labels).repr,
     properties |-> RelPropertyRows(rel)]

\* The tables of indexes, constraints and procedures: the columns the rows of
\* the model have.
IndexTable(rows) ==
    [i \in 1..Len(rows) |->
        [name |-> escape_markdown(Str(rows[i].name)),
         labels |-> escape_markdown(Join(", ", rows[i].labelsOrTypes))]]

ProcedureTable(rows) ==
    [i \in 1..Len(rows) |->
        [name |-> escape_markdown(Str(rows[i].name)),
         signature |-> escape_markdown(Str(rows[i].signature))]]

\* generate_markdown_report: what the report holds, section by section.
generate_markdown_report(model, dot_path, png_path) ==
    [title |-> model.db_name,
     version |-> model.version,
     db_size |-> model.db_size,
     node_labels |-> Len(model.nodes),
     relationship_types |-> Len(model.relationships),
     nodes |-> [i \in 1..Len(model.nodes) |-> NodeSection(model, model.nodes[i])],
     relationships |-> [i \in 1..Len(model.relationships) |->
                           RelSection(model.relationships[i])],
     indexes |-> IndexTable(model.indexes),
     constraints |-> IndexTable(model.constraints),
     procedures |-> ProcedureTable(model.procedures),
     dot |-> dot_path, png |-> png_path]

(***************************************************************************)
(* neo4j_xray.py: main(), one action per statement of its try block (the   *)
(* statements of get_all_data, which main calls, each by itself).          *)
(***************************************************************************)
Files == <<dotFile, pngFile, mdFile>>

\* An exception leaves get_all_data: main's `data` is never assigned.
Propagate(r) ==
    /\ raised' = raised \cup Range(r.exc) \cup r.caught
    /\ pc' = "except"
    /\ UNCHANGED <<db, text, result, partial, data, driver, Files, io, exitCode>>

\* The statement data[key] = value of get_all_data.
Store(r, key, next) ==
    /\ raised' = raised \cup r.caught
    /\ partial' = (key :> r.val) @@ partial
    /\ pc' = next
    /\ UNCHANGED <<db, text, result, data, driver, Files, io, exitCode>>

\* parse_neo4j_uri, the credentials check and Neo4jConnector(...): any of
\* them may raise, and then no connector exists.
Connect ==
    /\ pc = "connect"
    /\ \E ok \in BOOLEAN :
          /\ driver' = IF ok THEN "open" ELSE driver
          /\ io' = [io EXCEPT !.connect = IF ok THEN "ok" ELSE "error"]
          /\ pc' = IF ok THEN "get_database_info" ELSE "except"
    /\ UNCHANGED <<db, text, result, raised, partial, data, Files, exitCode>>

DatabaseInfo ==
    /\ pc = "get_database_info"
    /\ \E F \in SUBSET InfoQueries(db) :
          LET r == get_database_info(db, F)
          IN  IF r.exc # <<>> THEN Propagate(r)
              ELSE /\ raised' = raised \cup r.caught
                   /\ partial' = r.val
                   /\ pc' = "get_nodes"
                   /\ UNCHANGED <<db, text, result, data, driver, Files, io, exitCode>>

Nodes ==
    /\ pc = "get_nodes"
    /\ \E F \in SUBSET NodeQueries(db) :
          LET r == get_nodes(db, F)
          IN  IF r.exc # <<>> THEN Propagate(r)
              ELSE Store(r, "nodes", "get_relationships")

Relationships ==
    /\ pc = "get_relationships"
    /\ \E F \in SUBSET RelationshipQueries(db) :
          LET r == get_relationships(db, F)
          IN  IF r.exc # <<>> THEN Propagate(r)
              ELSE Store(r, "relationships", "get_samples")

Samples ==
    /\ pc = "get_samples"
    /\ \E F \in SUBSET SampleQueries(partial.nodes) :
          LET r == get_samples(db, F, partial.nodes)
          IN  IF r.exc # <<>> THEN Propagate(r)
              ELSE Store(r, "samples", "get_indexes")

Indexes ==
    /\ pc = "get_indexes"
    /\ \E F \in SUBSET {Q("indexes", "")} :
          LET r == get_indexes(db, F)
          IN  IF r.exc # <<>> THEN Propagate(r)
              ELSE Store(r, "indexes", "get_constraints")

Constraints ==
    /\ pc = "get_constraints"
    /\ \E F \in SUBSET {Q("constraints", "")} :
          LET r == get_constraints(db, F)
          IN  IF r.exc # <<>> THEN Propagate(r)
              ELSE Store(r, "constraints", "get_procedures")

\* data['procedures'] = ...; return data
Procedures ==
    /\ pc = "get_procedures"
    /\ \E F \in SUBSET {Q("procedures", "")} :
          LET r == get_procedures(db, F)
          IN  IF r.exc # <<>> THEN Propagate(r)
              ELSE /\ raised' = raised \cup r.caught
                   /\ partial' = ("procedures" :> r.val) @@ partial
                   /\ data' = <<partial'>>
                   /\ pc' = "generate_graph_dot"
                   /\ UNCHANGED <<db, text, result, driver, Files, io, exitCode>>

\* open(dot_path, 'w') may raise OSError.
GenerateGraphDot ==
    /\ pc = "generate_graph_dot"
    /\ \E o \in {"ok", "oserror"} :
          /\ io' = [io EXCEPT !.dot = o]
          /\ IF o = "ok"
             THEN /\ dotFile' = <<generate_graph_dot(data[1].nodes, data[1].relationships)>>
                  /\ pc' = "render_png"
             ELSE /\ dotFile' = dotFile
                  /\ pc' = "except"
    /\ UNCHANGED <<db, text, result, raised, partial, data, driver, pngFile, mdFile, exitCode>>

RenderPng ==
    /\ pc = "render_png"
    /\ \E outcome \in RasterizerOutcomes :
          LET r == render_png(outcome)
          IN  /\ io' = [io EXCEPT !.render = outcome]
              /\ pngFile' = r.png
              /\ pc' = IF r.exc THEN "except" ELSE "generate_markdown_report"
    /\ UNCHANGED <<db, text, result, raised, partial, data, driver, dotFile, mdFile, exitCode>>

\* open(md_path, 'w') may raise OSError.
GenerateReport ==
    /\ pc = "generate_markdown_report"
    /\ \E o \in {"ok", "oserror"} :
          /\ io' = [io EXCEPT !.report = o]
          /\ IF o = "ok"
             THEN /\ mdFile' = <<generate_markdown_report(data[1], "dot", "png")>>
                  /\ pc' = "close"
             ELSE /\ mdFile' = mdFile
                  /\ pc' = "except"
    /\ UNCHANGED <<db, text, result, raised, partial, data, driver, dotFile, pngFile, exitCode>>

\* db.close(), then return 0.
Close ==
    /\ pc = "close"
    /\ driver' = "closed"
    /\ exitCode' = <<0>>
    /\ pc' = "done"
    /\ UNCHANGED <<db, text, result, raised, partial, data, Files, io>>

\* except Exception as e: print(...); return 1
Except ==
    /\ pc = "except"
    /\ exitCode' = <<1>>
    /\ pc' = "done"
    /\ UNCHANGED <<db, text, result, raised, partial, data, driver, Files, io>>

Next ==
    \/ Connect \/ DatabaseInfo \/ Nodes \/ Relationships \/ Samples
    \/ Indexes \/ Constraints \/ Procedures
    \/ GenerateGraphDot \/ RenderPng \/ GenerateReport \/ Close \/ Except

Start ==
    /\ pc = "connect"
    /\ raised = {}
    /\ partial = <<>>
    /\ data = <<>>
    /\ driver = "none"
    /\ dotFile = <<>>
    /\ pngFile = FALSE
    /\ mdFile = <<>>
    /\ io = [connect |-> "", dot |-> "", render |-> "", report |-> ""]
    /\ exitCode = <<>>
    /\ text = None
    /\ result = <<>>

\* The databases of Spec: every combination of present and absent rows of the
\* one-row and pass-through queries, over a fixed schema.
BaseEntities == [l \in LabelNames |-> IF l = "A" THEN <<<<[k |-> "id", v |-> Int7]>>>> ELSE <<>>]
BaseEdges ==
    [t \in RelNames |->
        IF t = "R" THEN <<[start_labels |-> <<"A">>, end_labels |-> <<"B">>,
                           props |-> <<>>, count |-> 2]>>
        ELSE <<>>]

Init ==
    /\ Start
    /\ \E v \in VersionRows, n \in NameRows, s \in SizeRows,
          ix \in IndexRows, cs \in ConstraintRows, ps \in ProcedureRows :
          db = Database(v, n, s, <<"A", "B">>, BaseEntities, <<"R", "S">>, BaseEdges,
                        ix, cs, ps)

Spec == Init /\ [][Next]_vars

\* The databases of SpecNodes: every sorted list of labels and every list of
\* nodes under each, the rest fixed.
InitNodes ==
    /\ Start
    /\ \E ls \in SortedLists(LabelNames) : \E es \in EntityMaps(ls) :
          db = Database(<<[version |-> "5.1"]>>, <<[name |-> "mydb"]>>,
                        <<[database |-> "mydb", totalSize |-> "1024"]>>,
                        ls, es, <<"R", "S">>, BaseEdges, <<>>, <<>>, <<>>)

SpecNodes == InitNodes /\ [][Next]_vars

\* The databases of SpecRels: every sorted list of relationship types and
\* every relationship under each, the rest fixed.
InitRels ==
    /\ Start
    /\ \E ts \in SortedLists(RelNames) : \E gs \in EdgeMaps(ts) :
          db = Database(<<[version |-> "5.1"]>>, <<[name |-> "mydb"]>>,
                        <<[database |-> "mydb", totalSize |-> "1024"]>>,
                        <<"A">>, BaseEntities, ts, gs, <<>>, <<>>, <<>>)

SpecRels == InitRels /\ [][Next]_vars

\* The databases of SpecBags: label A holds up to MaxSamples nodes, each with
\* any of the property bags below: no property, the key "id" with a number,
\* with a string and with null, a key that differs from "id" in case only, a
\* key with an escaped character, a null value under another key.
PropertyBags ==
    {<<>>,
     <<[k |-> "id", v |-> Int7]>>,
     <<[k |-> "id", v |-> None]>>,
     <<[k |-> "name", v |-> None]>>,
     <<[k |-> "name", v |-> StrX], [k |-> "id", v |-> StrX]>>,
     <<[k |-> "first_name", v |-> StrX], [k |-> "ID", v |-> Int7]>>}

InitBags ==
    /\ Start
    /\ \E es \in SeqsUpTo(PropertyBags, MaxSamples) :
          db = Database(<<[version |-> "5.1"]>>, <<[name |-> "mydb"]>>,
                        <<[database |-> "mydb", totalSize |-> "1024"]>>,
                        <<"A", "B">>,
                        [l \in LabelNames |-> IF l = "A" THEN es ELSE <<<<>>>>],
                        <<"R", "S">>, BaseEdges, <<>>, <<>>, <<>>)

SpecBags == InitBags /\ [][Next]_vars

\* The diagram generator by itself: generate_graph_dot applied to every model
\* of at most MaxDotNodes labels and one relationship type, whose names are
\* plain or hold a quotation mark, a backslash or a markup character.
DotLabels == {"A", "a\"b", "a\\", "a<b", "a>b", "a&b"}
DotTypes == {"R", "r\"s"}
DotNodes ==
    [label : DotLabels, node_count : {1},
     properties : {<<>>, <<PropertyDescriptor([k |-> "id", v |-> Int7])>>}]
DotRelationships ==
    [type : DotTypes,
     start_labels : SeqsUpTo(DotLabels, 1), end_labels : SeqsUpTo(DotLabels, 1),
     relationship_count : {1}, properties : RelBags]

InitDot ==
    /\ pc = "generate_graph_dot"
    /\ \E nodes \in SeqsUpTo(DotNodes, MaxDotNodes) :
       \E relationships \in SeqsUpTo(DotRelationships, 1) :
          /\ NoDup([i \in 1..Len(nodes) |-> nodes[i].label])
          /\ data = <<[nodes |-> nodes, relationships |-> relationships]>>
    /\ db = Database(<<>>, <<>>, <<>>, <<>>, BaseEntities, <<>>, BaseEdges, <<>>, <<>>, <<>>)
    /\ raised = {}
    /\ partial = <<>>
    /\ driver = "open"
    /\ dotFile = <<>>
    /\ pngFile = FALSE
    /\ mdFile = <<>>
    /\ io = [connect |-> "ok", dot |-> "", render |-> "", report |-> ""]
    /\ exitCode = <<>>
    /\ text = None
    /\ result = <<>>

SpecDot == InitDot /\ [][GenerateGraphDot]_vars

\* The escaper by itself: escape_markdown applied to None, to a number and to
\* every string of at most MaxTextLen characters, each one of the escaped
\* characters, the escape marker or a plain letter.
Alphabet == Range(escape_chars) \cup {"\\", "a"}
Texts ==
    {None, Int7} \cup {[type |-> "str", repr |-> s] : s \in SeqsUpTo(Alphabet, MaxTextLen)}

EscapeMarkdown ==
    /\ pc = "escape_markdown"
    /\ result' = escape_markdown(text)
    /\ pc' = "escaped"
    /\ UNCHANGED <<db, text, raised, partial, data, driver, Files, io, exitCode>>

InitEscape ==
    /\ pc = "escape_markdown"
    /\ text \in Texts
    /\ result = <<>>
    /\ db = Database(<<>>, <<>>, <<>>, <<>>, BaseEntities, <<>>, BaseEdges, <<>>, <<>>, <<>>)
    /\ raised = {}
    /\ partial = <<>>
    /\ data = <<>>
    /\ driver = "none"
    /\ dotFile = <<>>
    /\ pngFile = FALSE
    /\ mdFile = <<>>
    /\ io = [connect |-> "", dot |-> "", render |-> "", report |-> ""]
    /\ exitCode = <<>>

SpecEscape == InitEscape /\ [][EscapeMarkdown]_vars

(***************************************************************************)
(* Vocabulary of the properties.                                           *)
(***************************************************************************)
Facets == {"version", "db_name", "db_size", "nodes", "relationships", "samples",
           "indexes", "constraints", "procedures"}

MandatoryKinds == {"version", "db_name", "size", "labels", "rel_types"}
OptionalKinds == {"indexes", "constraints", "procedures"}
PerTypeKinds == {"count", "props", "endpoints", "rel_props", "rel_count"}

RaisedKinds == {q[1] : q \in raised}

\* main is past its call of get_all_data (which has returned or raised).
ExtractionOver ==
    pc \in {"generate_graph_dot", "render_png", "generate_markdown_report",
            "close", "except", "done"} /\ driver # "none"

\* get_all_data has returned: main's `data` holds the model.
Returned == data # <<>>

\* A statement of get_all_data has stored facet `key`.
Stored(key) == key \in DOMAIN partial

\* The model get_all_data returns for database d when no query raises.
FaultFree(d) ==
    LET nodes == get_nodes(d, {}).val
    IN  [version |-> get_database_info(d, {}).val.version,
         db_name |-> get_database_info(d, {}).val.db_name,
         db_size |-> get_database_info(d, {}).val.db_size,
         nodes |-> nodes,
         relationships |-> get_relationships(d, {}).val,
         samples |-> get_samples(d, {}, nodes).val,
         indexes |-> get_indexes(d, {}).val,
         constraints |-> get_constraints(d, {}).val,
         procedures |-> get_procedures(d, {}).val]

\* C1: when the executor raises on exactly one of the indexes, constraints and
\* procedures queries and on no other query, get_all_data returns (it does not
\* raise) a model with all nine facets, in which the failed facet is the empty
\* list and every other facet has its fault-free value.
C1_OptionalFacetIsolated ==
    \A f \in OptionalKinds :
        (raised = {Q(f, "")} /\ ExtractionOver) =>
            /\ Returned
            /\ DOMAIN data[1] = Facets
            /\ data[1][f] = <<>>
            /\ \A g \in Facets \ {f} : data[1][g] = FaultFree(db)[g]

\* C1 witness: a run whose indexes query alone raised, over a database that
\* has index rows, has reached the end of main.
C1_Witness ==
    /\ raised = {Q("indexes", "")}
    /\ db.indexes # <<>>
    /\ db.constraints # <<>>
    /\ Returned
    /\ pc = "done"

\* C2 (as claimed): get_all_data fails only through a raise of one of the five
\* mandatory queries (version, database name, size, list labels, list
\* relationship types): whenever the connector exists and get_all_data is
\* over without a model, a mandatory query has raised.
C2_OnlyMandatoryQueriesAbort ==
    (ExtractionOver /\ ~Returned) => RaisedKinds \cap MandatoryKinds # {}

\* C2 (amended): get_all_data fails exactly when a mandatory query or a
\* per-label count or property query or a per-relationship-type endpoint,
\* property or count query raises; when none of them raises it returns a
\* model with all nine facets, whichever of the sampling, indexes, constraints
\* and procedures queries raise.
C2_OnlyUnguardedQueriesAbort ==
    ExtractionOver =>
        /\ Returned <=> RaisedKinds \cap (MandatoryKinds \cup PerTypeKinds) = {}
        /\ Returned => DOMAIN data[1] = Facets

\* C2 witness: get_all_data has returned although every sampling query and
\* the indexes, constraints and procedures queries all raised.
C2_Witness ==
    /\ Returned
    /\ pc = "generate_graph_dot"
    /\ raised = {Q("sample", "A"), Q("sample", "B"), Q("indexes", ""),
                 Q("constraints", ""), Q("procedures", "")}

\* C3: once a mandatory query has raised, main is in or past its except clause
\* and returns 1, and no diagram, image or report file is written; and no
\* synthesizer statement runs or has run unless get_all_data has returned a
\* model with all nine facets.
C3_MandatoryFaultAborts ==
    /\ RaisedKinds \cap MandatoryKinds # {} =>
          /\ pc \in {"except", "done"}
          /\ pc = "done" => exitCode = <<1>>
          /\ dotFile = <<>> /\ ~pngFile /\ mdFile = <<>>
          /\ io.dot = "" /\ io.render = "" /\ io.report = ""
    /\ (\/ pc \in {"generate_graph_dot", "render_png", "generate_markdown_report"}
        \/ io.dot # "" \/ io.render # "" \/ io.report # "") =>
          /\ Returned
          /\ DOMAIN data[1] = Facets
          /\ RaisedKinds \cap MandatoryKinds = {}

\* C3 witness: main has returned 1 after the list-labels query raised.
C3_Witness ==
    /\ pc = "done"
    /\ exitCode = <<1>>
    /\ raised = {Q("labels", "")}

\* C4 (as claimed): when main returns after the connector was created, the
\* connection has been closed.
C4_ConnectionReleased ==
    (pc = "done" /\ driver # "none") => driver = "closed"

\* The nodes of the rows the sampling query of a label returns.
SampleRows(d, label) ==
    [i \in 1..Len(Rows(d, Q("sample", label))) |-> Rows(d, Q("sample", label))[i].n]

\* C5: get_samples never raises; once it has returned, samples has exactly one
\* entry per label of nodes, the entry of a label whose sampling query raised
\* is the empty list, and the entry of every other label holds the nodes of
\* that query's rows.
C5_SamplingFaultIsolated ==
    /\ (Stored("relationships") /\ pc \notin {"get_samples"}) => Stored("samples")
    /\ Stored("samples") =>
          /\ DOMAIN partial.samples = {partial.nodes[i].label : i \in 1..Len(partial.nodes)}
          /\ \A l \in DOMAIN partial.samples :
                partial.samples[l] =
                    IF Q("sample", l) \in raised THEN <<>> ELSE SampleRows(db, l)

\* C5 witness: sampling raised for label A, which has nodes, and the entry of
\* label B holds B's nodes.
C5_Witness ==
    /\ Stored("samples")
    /\ Q("sample", "A") \in raised
    /\ db.entities["A"] # <<>>
    /\ partial.samples["A"] = <<>>
    /\ "B" \in DOMAIN partial.samples
    /\ partial.samples["B"] # <<>>

\* C6: when the rasterizer is missing or exits with a nonzero status,
\* render_png does not raise and main goes on to generate_markdown_report;
\* unless writing the report itself fails, the report is written and main
\* returns 0.
C6_RasterizerFaultRecoverable ==
    io.render \in {"missing", "nonzero"} =>
        /\ ~pngFile
        /\ io.report = "" => pc = "generate_markdown_report"
        /\ io.report = "ok" => /\ mdFile # <<>>
                               /\ pc \in {"close", "done"}
                               /\ pc = "done" => exitCode = <<0>>

\* C6 witness: main has returned 0 with the report written after the
\* rasterizer exited with a nonzero status.
C6_Witness ==
    /\ io.render = "nonzero"
    /\ pc = "done"
    /\ exitCode = <<0>>
    /\ mdFile # <<>>

\* C6 witness for the missing binary.
C6_WitnessMissing ==
    /\ io.render = "missing"
    /\ pc = "done"
    /\ exitCode = <<0>>
    /\ mdFile # <<>>

\* The relationship types of d whose endpoint query returns a record, in the
\* order of the list-relationship-types query.
RECURSIVE TypesWithEdge(_, _)
TypesWithEdge(d, ts) ==
    IF ts = <<>> THEN <<>>
    ELSE (IF d.edges[Head(ts)] # <<>> THEN <<Head(ts)>> ELSE <<>>)
            \o TypesWithEdge(d, Tail(ts))

\* C7: once get_relationships has returned, its result lists exactly the
\* relationship types that have a matching relationship, in the order the
\* types were listed, and no type without one.
C7_EmptyTypesOmitted ==
    Stored("relationships") =>
        [i \in 1..Len(partial.relationships) |-> partial.relationships[i].type]
            = TypesWithEdge(db, db.relTypes)

\* C7 witness: R and S are listed, R has no relationship and S has one, and
\* get_relationships has returned.
C7_Witness ==
    /\ Stored("relationships")
    /\ db.relTypes = <<"R", "S">>
    /\ db.edges["R"] = <<>>
    /\ db.edges["S"] # <<>>
    /\ Len(partial.relationships) = 1

\* C8: once get_nodes has returned, its result has exactly one entry per
\* listed label, in listing order, and the entry of a label without nodes has
\* node_count 0 and no properties.
C8_EmptyLabelsKept ==
    Stored("nodes") =>
        /\ [i \in 1..Len(partial.nodes) |-> partial.nodes[i].label] = db.labels
        /\ \A i \in 1..Len(partial.nodes) :
              db.entities[partial.nodes[i].label] = <<>> =>
                  /\ partial.nodes[i].node_count = 0
                  /\ partial.nodes[i].properties = <<>>

\* C8 witness: A and B are listed, A has no node and B has one with a
\* property, and get_nodes has returned.
C8_Witness ==
    /\ Stored("nodes")
    /\ db.labels = <<"A", "B">>
    /\ db.entities["A"] = <<>>
    /\ db.entities["B"] # <<>>
    /\ partial.nodes[2].properties # <<>>

\* C9 (as claimed): every relationship entry of the model get_all_data
\* returns has a non-empty start_labels and a non-empty end_labels.
C9_EndpointLabelsNonEmpty ==
    Returned =>
        \A i \in 1..Len(data[1].relationships) :
            /\ data[1].relationships[i].start_labels # <<>>
            /\ data[1].relationships[i].end_labels # <<>>

\* The places of the edge statements of relationship type t in the DOT file.
EdgePlaces(dot, t) ==
    {n \in 1..Len(dot) : dot[n].kind = "edge" /\ dot[n].label.type = t}

\* C10: the DOT file holds, for every relationship of the input, exactly
\* |start_labels| x |end_labels| edge statements, one per pair of a start label
\* and an end label, and no edge statement of any other type.
C10_EdgesAreCartesianProduct ==
    dotFile # <<>> =>
        /\ \A i \in 1..Len(data[1].relationships) :
              LET rel == data[1].relationships[i]
                  at == EdgePlaces(dotFile[1], rel.type)
              IN  /\ Cardinality(at) = Len(rel.start_labels) * Len(rel.end_labels)
                  /\ {<<dotFile[1][n].tail, dotFile[1][n].head>> : n \in at}
                        = Range(rel.start_labels) \X Range(rel.end_labels)
        /\ \A n \in 1..Len(dotFile[1]) :
              dotFile[1][n].kind = "edge" =>
                  \E i \in 1..Len(data[1].relationships) :
                      data[1].relationships[i].type = dotFile[1][n].label.type

\* C10 witness: the DOT file is written for a relationship from a node
\* labelled A and B to a node labelled A, and holds its two edges.
C10_Witness ==
    /\ dotFile # <<>>
    /\ \E i \in 1..Len(data[1].relationships) :
          /\ Len(data[1].relationships[i].start_labels) = 2
          /\ Len(data[1].relationships[i].end_labels) = 1
          /\ Cardinality(EdgePlaces(dotFile[1], data[1].relationships[i].type)) = 2

\* Every escaped character prefixed by one escape marker, every other
\* character, the escape marker included, copied.
RECURSIVE Prefixed(_)
Prefixed(s) ==
    IF s = <<>> THEN <<>>
    ELSE (IF Head(s) \in Range(escape_chars) THEN <<"\\", Head(s)>> ELSE <<Head(s)>>)
         \o Prefixed(Tail(s))

Reversed(s) == [i \in 1..Len(s) |-> s[Len(s) + 1 - i]]

\* C12: escape_markdown(text) is str(text) with every occurrence of each of the
\* thirteen escaped characters prefixed by exactly one backslash and every
\* other character, a literal backslash included, copied unchanged; taking the
\* characters in the opposite order gives the same text; escape_markdown(None)
\* is the empty string.
C12_EscapeIsOnePrefixPerOccurrence ==
    pc = "escaped" =>
        IF text = None THEN result = <<>>
        ELSE /\ result = Prefixed(text.repr)
             /\ EscapeLoop(Reversed(escape_chars), text.repr, 1) = result

\* A literal backslash, then two escaped characters in the order opposite to
\* the loop's.
C12_Witness ==
    /\ pc = "escaped"
    /\ text # None
    /\ text.repr = <<"\\", "_", "|">>
    /\ result = <<"\\", "\\", "_", "\\", "|">>

\* The property bag that get_node_properties samples for a label: that of the
\* label's first node, or no bag.
SampledBag(label) == IF db.entities[label] # <<>> THEN db.entities[label][1] ELSE <<>>

\* C14: get_node_properties emits exactly one descriptor for each property key
\* of the single sampled property bag; a descriptor's data_type is "unknown"
\* exactly when the sampled value is null, and its is_primary_key is true
\* exactly when the property name is "id", whatever the value and its type.
C14_OneDescriptorPerSampledKey ==
    Stored("nodes") =>
        \A i \in 1..Len(partial.nodes) :
            LET props == SampledBag(partial.nodes[i].label)
                properties == partial.nodes[i].properties
            IN  /\ Len(properties) = Len(props)
                /\ \A j \in 1..Len(props) :
                      /\ properties[j].property_name = props[j].k
                      /\ properties[j].data_type = "unknown" <=> props[j].v = None
                      /\ props[j].v # None => properties[j].data_type = props[j].v.type
                      /\ properties[j].is_primary_key <=> props[j].k = "id"

\* The sampled node has the key "id" with a null value; another run samples a
\* key "ID" with a number.
C14_Witness ==
    /\ Stored("nodes")
    /\ SampledBag("A") = <<[k |-> "id", v |-> None]>>
    /\ partial.nodes[1].properties =
          <<[property_name |-> "id", data_type |-> "unknown", is_primary_key |-> TRUE]>>

\* The j-th of a set of keys in lexicographic order.
Position(key) == CHOOSE n \in 1..Len(KeyOrder) : KeyOrder[n] = key
KeyAt(keys, j) ==
    CHOOSE key \in keys :
        Cardinality({other \in keys : Position(other) < Position(key)}) = j - 1

\* C13: the sample table of a label has as columns the lexicographically sorted
\* union of the keys of all of the label's sample records, and one row for each
\* record, in order; the cell of a record that lacks a column's key is the
\* empty string, any other cell is the escaped value.
C13_SampleTableIsSortedUnion ==
    mdFile # <<>> =>
        \A n \in 1..Len(mdFile[1].nodes) :
            LET samples == data[1].samples[data[1].nodes[n].label]
                keys == UNION {Keys(samples[i]) : i \in 1..Len(samples)}
                table == mdFile[1].nodes[n].samples
            IN  /\ Len(table.columns) = Cardinality(keys)
                /\ \A j \in 1..Len(table.columns) :
                      table.columns[j] = escape_markdown(Str(KeyAt(keys, j)))
                /\ Len(table.rows) = Len(samples)
                /\ \A i \in 1..Len(samples) :
                      /\ Len(table.rows[i]) = Cardinality(keys)
                      /\ \A j \in 1..Cardinality(keys) :
                            LET key == KeyAt(keys, j)
                            IN  table.rows[i][j] =
                                   IF key \in Keys(samples[i])
                                   THEN escape_markdown(Get(samples[i], key, None))
                                   ELSE <<>>

\* Two sample records without a common key: three columns, and each row is
\* empty where its record has no such key.
C13_Witness ==
    /\ mdFile # <<>>
    /\ data[1].samples["A"] =
          <<<<[k |-> "id", v |-> Int7]>>,
            <<[k |-> "first_name", v |-> StrX], [k |-> "ID", v |-> Int7]>>>>
    /\ mdFile[1].nodes[1].samples =
          [columns |-> <<<<"ID">>, <<"first", "\\", "_", "name">>, <<"id">>>>,
           rows |-> <<<<<<>>, <<>>, <<"7">>>>, <<<<"7">>, <<"x">>, <<>>>>>>]

\* C15: the diagram and the report show the same inferred type for every
\* relationship property: the type name in an edge label is the type name in
\* the report's property table of that relationship type, also for a property
\* whose sampled value is null (which infers "unknown").
C15_SameTypeInDiagramAndReport ==
    (dotFile # <<>> /\ mdFile # <<>>) =>
        \A e \in 1..Len(dotFile[1]) : \A r \in 1..Len(mdFile[1].relationships) :
            LET statement == dotFile[1][e]
                section == mdFile[1].relationships[r]
            IN  (statement.kind = "edge" /\ statement.label.type = section.type) =>
                    /\ Len(statement.label.props) = Len(section.properties)
                    /\ \A j \in 1..Len(section.properties) :
                          /\ Text(statement.label.props[j].name) = section.properties[j].name
                          /\ Text(statement.label.props[j].type) = section.properties[j].type

\* The reader of DOT: the position at which the quoted string that opens just
\* before position p of a line closes (a backslash takes the next character
\* with it), or 0 when the line ends first.
RECURSIVE QuoteEnd(_, _)
QuoteEnd(line, p) ==
    IF p > Len(line) THEN 0
    ELSE IF line[p] = "\\" THEN QuoteEnd(line, p + 2)
    ELSE IF line[p] = "\"" THEN p
    ELSE QuoteEnd(line, p + 1)

\* The quoted string that opens at position p.
Quoted(line, p) ==
    IF QuoteEnd(line, p + 1) = 0 THEN <<"unterminated">>
    ELSE SubSeq(line, p + 1, QuoteEnd(line, p + 1) - 1)

\* The position of the next quotation mark at or after p, or 0.
RECURSIVE QuoteOpen(_, _)
QuoteOpen(line, p) ==
    IF p > Len(line) THEN 0
    ELSE IF line[p] = "\"" THEN p
    ELSE QuoteOpen(line, p + 1)

\* The first n quoted strings of a line from position p on.
RECURSIVE QuotedStrings(_, _, _)
QuotedStrings(line, p, n) ==
    IF n = 0 \/ QuoteOpen(line, p) = 0 THEN <<>>
    ELSE LET open == QuoteOpen(line, p)
             close == QuoteEnd(line, open + 1)
         IN  <<Quoted(line, open)>>
             \o (IF close = 0 THEN <<>> ELSE QuotedStrings(line, close + 1, n - 1))

\* The run of text of a markup cell that starts at position p: it ends before
\* the first tag or markup character.
Markup == {"<", ">", "&", "<B>", "</B>", "<TD>", "</TD>", "<TR>", "</TR>",
           "<FONT>", "</FONT>", "<TABLE>", "</TABLE>"}
RECURSIVE TextRun(_, _)
TextRun(line, p) ==
    IF p > Len(line) \/ line[p] \in Markup THEN <<>>
    ELSE <<line[p]>> \o TextRun(line, p + 1)

\* C11: the diagram has exactly one node statement for each label, and no
\* character of a label or of a relationship type ends its quoted identifier
\* or its markup cell early: the identifier of a node statement and the text of
\* its header cell read back as the label, and the three quoted strings of an
\* edge statement read back as the start label, the end label and the edge
\* label.
C11_NamesReadBackWhole ==
    dotFile # <<>> =>
        /\ \A n \in 1..Len(data[1].nodes) :
              /\ dotFile[1][n].kind = "node"
              /\ dotFile[1][n].id = data[1].nodes[n].label
        /\ \A n \in 1..Len(dotFile[1]) :
              LET statement == dotFile[1][n]
                  line == DotLine(statement)
              IN  IF statement.kind = "node"
                  THEN /\ n <= Len(data[1].nodes)
                       /\ Quoted(line, 2) = Text(statement.id)
                       /\ TextRun(line, 2 + Len(Text(statement.id)) + 9)
                             = Text(statement.label.header)
                  ELSE QuotedStrings(line, 1, 3)
                          = <<Text(statement.tail), Text(statement.head),
                              RelLabelText(statement.label)>>

====
